---- MODULE Spec2Model ----
(***************************************************************************)
(* Model of the S&P 500 membership timeline builder                        *)
(* (src/build_sp500_history.py) and of the weekly mention filter that      *)
(* consumes the timeline (src/sentiment_scraper.py, whose filtering code   *)
(* is not part of the available source and is modelled from spec.md 4.2).  *)
(*                                                                         *)
(* Dates are day numbers counted from 1970-01-01, so datetime(2022, 1, 3)  *)
(* is day 18995.  A change_log entry is the tuple                          *)
(* <<date, ticker, action, name>> of the source.  Strings are compared     *)
(* through StrOrder, which lists every string of the model in Python's     *)
(* (code point) order.                                                     *)
(*                                                                         *)
(* A change row whose date cell is empty (pandas NaN, parsed to NaT        *)
(* without raising) is outside the modelled inputs: every modelled date    *)
(* cell is text, which either parses to a day or makes pd.to_datetime      *)
(* raise.                                                                  *)
(***************************************************************************)
EXTENDS Integers, Sequences, FiniteSets, TLC

VARIABLES
    \* inputs (the two Wikipedia tables)
    current_sp500,      \* set(current_table['Symbol'])
    changes_table,      \* the rows of tables[1], in table order
    \* program state of build_sp500_history.py
    pc,                 \* "parse" | "build" | "done" | "raised" ("idle": not run)
    row_idx,            \* position of the iterrows() loop
    change_log,
    ticker_to_name,
    constituents,
    weekly_snapshots,
    snapshot_date,
    \* history variables (not in the source)
    parsed_log,         \* change_log as parsed, before the sort
    queue0,             \* change_log right after the sort
    undone,             \* the popped events, in pop order
    \* a second run of the script on the same inputs
    run,                \* 1 | 2
    first_output,       \* weekly_snapshots of run 1
    \* the weekly mention filter (spec.md 4.2)
    membership,         \* week -> MembershipSnapshot.members
    top_n,              \* the configured TOP_N_WEEKLY
    fpc,                \* "idle" | "count" | "selected" | "end"
    week,               \* the week being processed
    items,              \* candidate sets of the text items consumed this week
    tally,              \* WeeklyMentionTally of this week: ticker -> count
    selection           \* TopSelection of this week

vars == <<current_sp500, changes_table, pc, row_idx, change_log, ticker_to_name,
          constituents, weekly_snapshots, snapshot_date, parsed_log, queue0,
          undone, run, first_output, membership, top_n, fpc, week, items,
          tally, selection>>

builder_vars == <<current_sp500, changes_table, pc, row_idx, change_log,
                  ticker_to_name, constituents, weekly_snapshots, snapshot_date,
                  parsed_log, queue0, undone, run, first_output>>

filter_vars == <<membership, top_n, fpc, week, items, tally, selection>>

----------------------------------------------------------------------------
(* Bounds of the model *)

\* weeks between start_date and end_date (157 in the source)
NumWeeks == 5
\* rows of the changes table
MaxRows == 2
\* comma-separated pieces of one cell of a richly drawn change row
MaxParts == 2
\* weeks the mention filter processes
NumFilterWeeks == 2
\* text items of one week
MaxItems == 3

----------------------------------------------------------------------------
(* Strings *)

\* every string of the model, in Python's str order
StrOrder == <<" d", " New", "A", "AAA", "AAPL", "ADD", "Alpha", "B", "Beta",
              "C", "D", "Delta", "Gamma", "MSFT", "NA", "NVDA", "New", "Old",
              "REMOVE", "TSLA", "ZZZ">>

StrRank(s) == CHOOSE i \in DOMAIN StrOrder : StrOrder[i] = s

\* s < t on Python str
StrLess(s, t) == StrRank(s) < StrRank(t)

Min(a, b) == IF a <= b THEN a ELSE b

SeqToSet(s) == {s[i] : i \in DOMAIN s}

----------------------------------------------------------------------------
(* Inputs *)

\* current_table: Symbol -> Security
Security == [t \in {"A", "B", "C", "D"} |->
               CASE t = "A" -> "Alpha" [] t = "B" -> "Beta"
                 [] t = "C" -> "Gamma" [] t = "D" -> "Delta"]

start_date == 18995
timedelta_days == 7
end_date == start_date + timedelta_days * NumWeeks

NaN == [kind |-> "nan", parts |-> <<>>]
Str(parts) == [kind |-> "str", parts |-> parts]

\* the pieces a ticker cell and a name cell split into, before strip()/upper()
RawTickers == {"C", " d"}
RawNames == {"Old", " New"}

PartSeqs(S, n) == UNION {[1..k -> S] : k \in 1..n}

\* the dates of the change rows: on start_date, inside the week that starts on
\* start_date, on the anchor date after start_date, and after end_date
EventDates == {start_date, start_date + 3, start_date + timedelta_days,
               end_date + 3}

DateCell(d) == [kind |-> "date", day |-> d]
JunkDate == [kind |-> "junk", day |-> 0]

\* well-formed rows: one ticker at most per cell, each with its name
PlainCells == {<<NaN, NaN>>} \cup {<<Str(<<t>>), Str(<<"Old">>)>> : t \in {"C", "D"}}

PlainRows == {[date |-> DateCell(d), added_tickers |-> a[1], added_names |-> a[2],
               removed_tickers |-> r[1], removed_names |-> r[2]] :
                 d \in EventDates,
                 a \in PlainCells, r \in PlainCells}
               \ {[date |-> DateCell(d), added_tickers |-> NaN, added_names |-> NaN,
                   removed_tickers |-> NaN, removed_names |-> NaN] : d \in EventDates}

RowSeqs(R, n) == UNION {[1..k -> R] : k \in 0..n}

CurrentChoices == {{"A", "B", "C"}, {"A", "B", "C", "D"}}

\* rows for the parser alone: cells of several pieces, with blanks and lower
\* case, a cell of either column possibly empty (NaN), the date possibly
\* unparseable
RichTickerCells == {NaN} \cup {Str(p) : p \in PartSeqs(RawTickers, MaxParts)}
RichNameCells == {NaN} \cup {Str(p) : p \in PartSeqs(RawNames, MaxParts)}

RichRows == [date : {JunkDate, DateCell(start_date + 3)},
             added_tickers : RichTickerCells, added_names : RichNameCells,
             removed_tickers : RichTickerCells, removed_names : RichNameCells]

\* rows for the termination check: one event each, on ticker D
OneEventRows == {r \in PlainRows :
                   \/ r.added_tickers = Str(<<"D">>) /\ r.removed_tickers = NaN
                   \/ r.added_tickers = NaN /\ r.removed_tickers = Str(<<"D">>)}

----------------------------------------------------------------------------
(* Step 3: parsing the change rows *)

\* t.strip().upper()
StripUpper(t) == CASE t = " d" -> "D" [] OTHER -> t

\* n.strip()
Strip(n) == CASE n = " New" -> "New" [] OTHER -> n

\* (mutant) the shorter list padded with "NA" instead of the longer one cut
ZipLongest(a, b) ==
    [i \in 1..(IF Len(a) >= Len(b) THEN Len(a) ELSE Len(b)) |->
        <<IF i <= Len(a) THEN a[i] ELSE "NA", IF i <= Len(b) THEN b[i] ELSE "NA">>]

\* zip(a, b): stops at the shorter list
Zip(a, b) == [i \in 1..Min(Len(a), Len(b)) |-> <<a[i], b[i]>>]

\* the events one pair of cells appends, in order
CellEvents(date, tickers, names, action) ==
    LET tl == [i \in DOMAIN tickers.parts |-> StripUpper(tickers.parts[i])]
        nl == [i \in DOMAIN names.parts |-> Strip(names.parts[i])]
        z  == Zip(tl, nl)
    IN  [i \in DOMAIN z |-> <<date, z[i][1], action, z[i][2]>>]

\* row[...].split(',') on a cell that is not a str raises AttributeError
SplitRaises(tickers, names) == tickers.kind = "str" /\ names.kind # "str"

Put(map, k, v) == [x \in DOMAIN map \cup {k} |-> IF x = k THEN v ELSE map[x]]

RECURSIVE SetNames(_, _)
\* ticker_to_name[t] = n for every appended event, in order
SetNames(map, evs) ==
    IF evs = <<>> THEN map
    ELSE SetNames(Put(map, Head(evs)[2], Head(evs)[4]), Tail(evs))

ParseRow ==
    /\ pc = "parse"
    /\ row_idx <= Len(changes_table)
    /\ LET row == changes_table[row_idx]
           date == row.date.day
           hasAdd == row.added_tickers.kind = "str"
           hasRem == row.removed_tickers.kind = "str"
           addRaises == SplitRaises(row.added_tickers, row.added_names)
           remRaises == SplitRaises(row.removed_tickers, row.removed_names)
           added == IF hasAdd /\ ~addRaises
                    THEN CellEvents(date, row.added_tickers, row.added_names, "ADD")
                    ELSE <<>>
           removed == IF hasRem /\ ~addRaises /\ ~remRaises
                      THEN CellEvents(date, row.removed_tickers, row.removed_names,
                                      "REMOVE")
                      ELSE <<>>
       IN  IF row.date.kind # "date"
           THEN \* pd.to_datetime raised: continue
                /\ row_idx' = row_idx + 1
                /\ UNCHANGED <<pc, change_log, ticker_to_name>>
           ELSE /\ change_log' = change_log \o added \o removed
                /\ ticker_to_name' = SetNames(ticker_to_name, added \o removed)
                /\ IF addRaises \/ remRaises
                   THEN pc' = "raised" /\ row_idx' = row_idx
                   ELSE pc' = pc /\ row_idx' = row_idx + 1
    /\ UNCHANGED <<current_sp500, changes_table, constituents, weekly_snapshots,
                   snapshot_date, parsed_log, queue0, undone, run, first_output>>
    /\ UNCHANGED filter_vars

----------------------------------------------------------------------------
(* change_log.sort(reverse=True) *)

\* (mutant) the sort keyed on the date alone
TupleLessByDate(a, b) == a[1] < b[1]

\* a < b on the tuples (date, ticker, action, name)
TupleLess(a, b) ==
    \/ a[1] < b[1]
    \/ a[1] = b[1] /\ StrLess(a[2], b[2])
    \/ a[1] = b[1] /\ a[2] = b[2] /\ StrLess(a[3], b[3])
    \/ a[1] = b[1] /\ a[2] = b[2] /\ a[3] = b[3] /\ StrLess(a[4], b[4])

RECURSIVE InsertDesc(_, _)
\* e placed after every element that is not smaller than it (stable)
InsertDesc(e, s) ==
    IF s = <<>> THEN <<e>>
    ELSE IF TupleLess(Head(s), e) THEN <<e>> \o s
    ELSE <<Head(s)>> \o InsertDesc(e, Tail(s))

RECURSIVE SortFrom(_, _)
SortFrom(done, rest) ==
    IF rest = <<>> THEN done
    ELSE SortFrom(InsertDesc(Head(rest), done), Tail(rest))

\* list.sort(reverse=True): descending, equal elements in their original order
SortReverse(s) == SortFrom(<<>>, s)

\* (mutant) the working set not seeded from the current roster
EmptyConstituents == {}

\* set(current_sp500)
InitialConstituents == current_sp500

\* lines 54-63: the sort and the initialisation of the build
SortLog ==
    /\ pc = "parse"
    /\ row_idx > Len(changes_table)
    /\ change_log' = SortReverse(change_log)
    /\ constituents' = InitialConstituents
    /\ weekly_snapshots' = <<>>
    /\ snapshot_date' = end_date
    /\ pc' = "build"
    /\ parsed_log' = change_log
    /\ queue0' = change_log'
    /\ UNCHANGED <<current_sp500, changes_table, row_idx, ticker_to_name, undone,
                   run, first_output>>
    /\ UNCHANGED filter_vars

----------------------------------------------------------------------------
(* Step 4: the weekly snapshot build loop *)

\* (mutant) the outer while stops one week early
LoopRunsAfterStart == snapshot_date > start_date

\* the guard of the outer while
LoopRuns == snapshot_date >= start_date

\* (mutant) the inner while also pops an event dated on the snapshot date
PendingOnOrAfter ==
    change_log # <<>> /\ Head(change_log)[1] >= snapshot_date

\* (mutant) the inner while compares with start_date
PendingAfterStart ==
    change_log # <<>> /\ Head(change_log)[1] > start_date

\* the guard of the inner while
NewerEventPending ==
    change_log # <<>> /\ Head(change_log)[1] > snapshot_date

\* (mutant) the event applied instead of undone
BacktrackForward(members, ev) ==
    IF ev[3] = "ADD" THEN members \cup {ev[2]}
    ELSE IF ev[3] = "REMOVE" THEN members \ {ev[2]}
    ELSE members

\* discard / add of one popped event
Backtrack(members, ev) ==
    IF ev[3] = "ADD" THEN members \ {ev[2]}
    ELSE IF ev[3] = "REMOVE" THEN members \cup {ev[2]}
    ELSE members

\* one iteration of the inner while: change_log.pop(0) and its undo
UndoEvent ==
    /\ pc = "build"
    /\ LoopRuns
    /\ NewerEventPending
    /\ constituents' = Backtrack(constituents, Head(change_log))
    /\ change_log' = Tail(change_log)
    /\ undone' = Append(undone, Head(change_log))
    /\ UNCHANGED <<current_sp500, changes_table, pc, row_idx, ticker_to_name,
                   weekly_snapshots, snapshot_date, parsed_log, queue0, run,
                   first_output>>
    /\ UNCHANGED filter_vars

RECURSIVE SortedList(_)
\* sorted(S) of a set of str
SortedList(S) ==
    IF S = {} THEN <<>>
    ELSE LET m == CHOOSE x \in S : \A y \in S : ~StrLess(y, x)
         IN  <<m>> \o SortedList(S \ {m})

\* date.strftime('%Y-%m-%d'), as the fields <<year, month, day>> of the text
Strftime(days) ==
    LET z   == days + 719468
        era == z \div 146097
        doe == z - era * 146097
        yoe == (doe - doe \div 1460 + doe \div 36524 - doe \div 146096) \div 365
        doy == doe - (365 * yoe + yoe \div 4 - yoe \div 100)
        mp  == (5 * doy + 2) \div 153
        d   == doy - (153 * mp + 2) \div 5 + 1
        m   == IF mp < 10 THEN mp + 3 ELSE mp - 9
        y   == yoe + era * 400 + (IF m <= 2 THEN 1 ELSE 0)
    IN  <<y, m, d>>

\* ticker_to_name.get(t, "NA")
GetName(map, t) == IF t \in DOMAIN map THEN map[t] ELSE "NA"

\* the snapshot dict of lines 74-78
Snapshot(date, members, names) ==
    LET tickers == SortedList(members)
    IN  [week_start |-> Strftime(date),
         tickers |-> tickers,
         names |-> [i \in DOMAIN tickers |-> GetName(names, tickers[i])]]

\* (mutant) the tickers listed in the set's iteration order instead of
\* sorted: an order that changes with the process's hash seed, here ascending in
\* the first run and descending in the second
RecordSnapshotUnsorted ==
    /\ pc = "build"
    /\ LoopRuns
    /\ ~NewerEventPending
    /\ LET sorted == SortedList(constituents)
           tickers == IF run = 1 THEN sorted
                      ELSE [i \in DOMAIN sorted |-> sorted[Len(sorted) + 1 - i]]
       IN  weekly_snapshots' =
             Append(weekly_snapshots,
                    [week_start |-> Strftime(snapshot_date),
                     tickers |-> tickers,
                     names |-> [i \in DOMAIN tickers |->
                                  GetName(ticker_to_name, tickers[i])]])
    /\ snapshot_date' = snapshot_date - timedelta_days
    /\ UNCHANGED <<current_sp500, changes_table, pc, row_idx, change_log,
                   ticker_to_name, constituents, parsed_log, queue0, undone, run,
                   first_output>>
    /\ UNCHANGED filter_vars

\* lines 74-80: the inner while is over; record the snapshot and step back
RecordSnapshot ==
    /\ pc = "build"
    /\ LoopRuns
    /\ ~NewerEventPending
    /\ weekly_snapshots' =
         Append(weekly_snapshots, Snapshot(snapshot_date, constituents, ticker_to_name))
    /\ snapshot_date' = snapshot_date - timedelta_days
    /\ UNCHANGED <<current_sp500, changes_table, pc, row_idx, change_log,
                   ticker_to_name, constituents, parsed_log, queue0, undone, run,
                   first_output>>
    /\ UNCHANGED filter_vars

\* the outer while ends; Step 5 writes weekly_snapshots out
Finish ==
    /\ pc = "build"
    /\ ~LoopRuns
    /\ pc' = "done"
    /\ UNCHANGED <<current_sp500, changes_table, row_idx, change_log, ticker_to_name,
                   constituents, weekly_snapshots, snapshot_date, parsed_log, queue0,
                   undone, run, first_output>>
    /\ UNCHANGED filter_vars

----------------------------------------------------------------------------
(* Specifications *)

FilterIdle ==
    /\ membership = <<>>
    /\ top_n = 0
    /\ fpc = "idle"
    /\ week = 0
    /\ items = <<>>
    /\ tally = <<>>
    /\ selection = <<>>

\* the state at line 35, the two tables read
ScriptStart ==
    /\ pc = "parse"
    /\ row_idx = 1
    /\ change_log = <<>>
    /\ ticker_to_name = [t \in current_sp500 |-> Security[t]]
    /\ constituents = {}
    /\ weekly_snapshots = <<>>
    /\ snapshot_date = end_date
    /\ parsed_log = <<>>
    /\ queue0 = <<>>
    /\ undone = <<>>

Init ==
    /\ current_sp500 \in CurrentChoices
    /\ changes_table \in RowSeqs(PlainRows, MaxRows)
    /\ ScriptStart
    /\ run = 1
    /\ first_output = <<>>
    /\ FilterIdle

Next == ParseRow \/ SortLog \/ UndoEvent \/ RecordSnapshot \/ Finish

Spec == Init /\ [][Next]_vars

FairInit ==
    /\ current_sp500 = {"A", "B", "C", "D"}
    /\ changes_table \in RowSeqs(OneEventRows, MaxRows)
    /\ ScriptStart
    /\ run = 1
    /\ first_output = <<>>
    /\ FilterIdle

\* the script is a sequential program: it takes its next step while it has one
FairSpec == FairInit /\ [][Next]_vars /\ WF_vars(Next)

ParseInit ==
    /\ current_sp500 = {"A", "B", "C"}
    /\ changes_table \in {<<r>> : r \in RichRows}
    /\ ScriptStart
    /\ run = 1
    /\ first_output = <<>>
    /\ FilterIdle

\* the parsing loop alone, on one richly drawn row
ParseSpec == ParseInit /\ [][ParseRow]_vars

\* the script run a second time on the same two tables
Restart ==
    /\ pc = "done"
    /\ run = 1
    /\ run' = 2
    /\ first_output' = weekly_snapshots
    /\ pc' = "parse"
    /\ row_idx' = 1
    /\ change_log' = <<>>
    /\ ticker_to_name' = [t \in current_sp500 |-> Security[t]]
    /\ constituents' = {}
    /\ weekly_snapshots' = <<>>
    /\ snapshot_date' = end_date
    /\ parsed_log' = <<>>
    /\ queue0' = <<>>
    /\ undone' = <<>>
    /\ UNCHANGED <<current_sp500, changes_table>>
    /\ UNCHANGED filter_vars

TwiceNext == Next \/ Restart

TwiceSpec == Init /\ [][TwiceNext]_vars

----------------------------------------------------------------------------
(* The time-windowed mention filter (spec.md 4.2) *)

TOP_N_WEEKLY == 5

FilterTickers == {"AAA", "AAPL", "MSFT", "NVDA", "TSLA", "ZZZ"}

\* the member sets a week's snapshot is drawn from
MembershipChoices == {{"AAPL", "MSFT"}, {"AAA", "TSLA", "ZZZ"}, FilterTickers}

\* the candidate sets the extractor returns for a text item
CandidateSets == {{"AAPL", "TSLA"}, {"AAA", "ZZZ"}, {"MSFT", "ZZZ"}, FilterTickers}

\* (mutant) a candidate kept when it is a member in any week
MembersOfAnyWeek == UNION {membership[w] : w \in DOMAIN membership}

\* step 2: the members of the active week's snapshot
ActiveMembers == membership[week]

\* step 3: one more mention for every surviving ticker of the item
Accumulate(counts, tickers) ==
    [t \in DOMAIN counts \cup tickers |->
        IF t \in DOMAIN counts
        THEN (IF t \in tickers THEN counts[t] + 1 ELSE counts[t])
        ELSE 1]

\* steps 1 to 3 for one text item
CountItem ==
    /\ fpc = "count"
    /\ Len(items) < MaxItems
    /\ \E candidates \in CandidateSets :
          /\ items' = Append(items, candidates)
          /\ tally' = Accumulate(tally, candidates \cap ActiveMembers)
    /\ UNCHANGED <<membership, top_n, fpc, week, selection>>
    /\ UNCHANGED builder_vars

\* (mutant) ties left in descending symbol order
RanksBeforeSymbolDescending(a, b) ==
    a[2] > b[2] \/ (a[2] = b[2] /\ StrLess(b[1], a[1]))

\* the sort key of step 4 on two (ticker, count) pairs: count descending,
\* then ticker ascending
RanksBefore(a, b) ==
    a[2] > b[2] \/ (a[2] = b[2] /\ StrLess(a[1], b[1]))

RECURSIVE SortPairs(_)
SortPairs(S) ==
    IF S = {} THEN <<>>
    ELSE LET first == CHOOSE p \in S : \A q \in S \ {p} : RanksBefore(p, q)
         IN  <<first>> \o SortPairs(S \ {first})

\* step 4: the first n pairs of the sorted tally
TopSelection(counts, n) ==
    LET sorted == SortPairs({<<t, counts[t]>> : t \in DOMAIN counts})
    IN  SubSeq(sorted, 1, Min(n, Len(sorted)))

SelectTop ==
    /\ fpc = "count"
    /\ selection' = TopSelection(tally, top_n)
    /\ fpc' = "selected"
    /\ UNCHANGED <<membership, top_n, week, items, tally>>
    /\ UNCHANGED builder_vars

\* the week's rows are written out and the next week starts from nothing
NextWeek ==
    /\ fpc = "selected"
    /\ IF week < NumFilterWeeks
       THEN /\ week' = week + 1
            /\ fpc' = "count"
            /\ items' = <<>>
            /\ tally' = <<>>
            /\ selection' = <<>>
       ELSE /\ fpc' = "end"
            /\ UNCHANGED <<week, items, tally, selection>>
    /\ UNCHANGED <<membership, top_n>>
    /\ UNCHANGED builder_vars

FilterInit ==
    /\ membership \in [1..NumFilterWeeks -> MembershipChoices]
    /\ top_n \in {1, TOP_N_WEEKLY}
    /\ fpc = "count"
    /\ week = 1
    /\ items = <<>>
    /\ tally = <<>>
    /\ selection = <<>>
    /\ current_sp500 = {}
    /\ changes_table = <<>>
    /\ pc = "idle"
    /\ row_idx = 1
    /\ change_log = <<>>
    /\ ticker_to_name = <<>>
    /\ constituents = {}
    /\ weekly_snapshots = <<>>
    /\ snapshot_date = end_date
    /\ parsed_log = <<>>
    /\ queue0 = <<>>
    /\ undone = <<>>
    /\ run = 1
    /\ first_output = <<>>

FilterNext == CountItem \/ SelectTop \/ NextWeek

FilterSpec == FilterInit /\ [][FilterNext]_vars

----------------------------------------------------------------------------
(* Vocabulary of the properties *)

Building == pc \in {"build", "done"}

\* the days a week_start text can stand for
DayRange == (start_date - timedelta_days)..(end_date + timedelta_days)

\* the week-anchor dates of [start_date, end_date], counted back from end_date
AnchorDays == {d \in start_date..end_date : (end_date - d) % timedelta_days = 0}

\* the day a 'YYYY-MM-DD' text names
DayOf(text) ==
    LET y   == IF text[2] <= 2 THEN text[1] - 1 ELSE text[1]
        era == y \div 400
        yoe == y - era * 400
        mp  == IF text[2] > 2 THEN text[2] - 3 ELSE text[2] + 9
        doy == (153 * mp + 2) \div 5 + text[3] - 1
        doe == yoe * 365 + yoe \div 4 - yoe \div 100 + doy
    IN  era * 146097 + doe - 719468

\* the members recorded for day d; {} when no snapshot of d is recorded
MembersAt(d) ==
    UNION {SeqToSet(weekly_snapshots[i].tickers) :
             i \in {j \in DOMAIN weekly_snapshots :
                      weekly_snapshots[j].week_start = Strftime(d)}}

Recorded(d) == \E i \in DOMAIN weekly_snapshots :
                  weekly_snapshots[i].week_start = Strftime(d)

\* undoing one event: an ADD takes the ticker out, a REMOVE puts it back
Undo(members, ev) ==
    IF ev[3] = "ADD" THEN members \ {ev[2]} ELSE members \cup {ev[2]}

RECURSIVE UndoInOrder(_, _)
UndoInOrder(members, evs) ==
    IF evs = <<>> THEN members
    ELSE UndoInOrder(Undo(members, Head(evs)), Tail(evs))

\* re-applying one event: an ADD puts the ticker in, a REMOVE takes it out
Reapply(members, ev) ==
    IF ev[3] = "ADD" THEN members \cup {ev[2]} ELSE members \ {ev[2]}

RECURSIVE ReplayForward(_, _)
\* evs is most recent first: the oldest event is re-applied first
ReplayForward(members, evs) ==
    IF evs = <<>> THEN members
    ELSE Reapply(ReplayForward(members, Tail(evs)), Head(evs))

After(evs, d) == SelectSeq(evs, LAMBDA e : e[1] > d)

Count(evs, e) == Cardinality({i \in DOMAIN evs : evs[i] = e})

----------------------------------------------------------------------------
(* C1 *)

C1_Members ==
    \A i \in DOMAIN weekly_snapshots :
        LET d == DayOf(weekly_snapshots[i].week_start)
        IN  /\ Strftime(d) = weekly_snapshots[i].week_start
            /\ SeqToSet(weekly_snapshots[i].tickers) =
                 UndoInOrder(current_sp500, After(queue0, d))

C1_Moment ==
    Len(weekly_snapshots') = Len(weekly_snapshots) + 1 =>
        /\ \A i \in DOMAIN undone : undone[i][1] > snapshot_date
        /\ \A i \in DOMAIN change_log : change_log[i][1] <= snapshot_date
        /\ weekly_snapshots'[Len(weekly_snapshots')].week_start = Strftime(snapshot_date)

\* C1: every recorded snapshot of a date d holds the current membership with
\* exactly the events dated strictly after d undone, most recent first; and at
\* the step that records it, every undone event is dated after d and every
\* event left in the queue is dated d or earlier.
C1_SnapshotIsMembershipAtDate == [](C1_Members) /\ [][C1_Moment]_vars

\* a snapshot is recorded with some events undone and others still queued, and
\* it differs from the current membership
C1_Witness ==
    /\ pc = "build"
    /\ Len(weekly_snapshots) >= 2
    /\ undone # <<>>
    /\ change_log # <<>>
    /\ SeqToSet(weekly_snapshots[Len(weekly_snapshots)].tickers) # current_sp500

----------------------------------------------------------------------------
(* C2 *)

EarliestMembers == SeqToSet(weekly_snapshots[Len(weekly_snapshots)].tickers)

RoundTrip == ReplayForward(EarliestMembers, undone) = current_sp500

\* the most recent undone event of every ticker agrees with the current
\* membership: an ADD of a current member, a REMOVE of a non-member
LastEventsAgree ==
    \A i \in DOMAIN undone :
        (\A j \in 1..(i - 1) : undone[j][2] # undone[i][2]) =>
            (undone[i][3] = "ADD" <=> undone[i][2] \in current_sp500)

\* C2 as stated: for every current membership and every event list, re-applying
\* the undone events in chronological order to the earliest snapshot gives the
\* current membership.
C2_RoundTripAlways == pc = "done" => RoundTrip

\* C2 amended: the round trip reproduces the current membership exactly when
\* the most recent undone event of each ticker agrees with the current
\* membership (ADD of a current member, REMOVE of a non-member), and fails
\* for every other input.
C2_RoundTripWhenLogAgrees == pc = "done" => (RoundTrip <=> LastEventsAgree)

\* a finished build that undid two events or more, changed the set, and whose
\* log agrees with the current membership
C2_Witness ==
    /\ pc = "done"
    /\ Len(undone) >= 2
    /\ LastEventsAgree
    /\ EarliestMembers # current_sp500

----------------------------------------------------------------------------
(* C5 *)

\* the scenario's change table: the single event ADD D, dated inside the week
\* that starts on start_date
ScenarioTable ==
    <<[date |-> DateCell(start_date + 3),
       added_tickers |-> Str(<<"D">>), added_names |-> Str(<<"Old">>),
       removed_tickers |-> NaN, removed_names |-> NaN]>>

\* C5 as stated: current membership {A, B, C} and the single event ADD D give
\* {A, B, C} before the event and {A, B, C, D} after it.
C5_ScenarioAsStated ==
    (pc = "done" /\ changes_table = ScenarioTable /\ current_sp500 = {"A", "B", "C"})
        => /\ MembersAt(start_date) = {"A", "B", "C"}
           /\ MembersAt(start_date + timedelta_days) = {"A", "B", "C", "D"}

\* C5 amended: with the single event ADD D, current membership {A, B, C} gives
\* {A, B, C} both before and after the event (D is never a member); the stated
\* snapshots, {A, B, C} before and {A, B, C, D} after, are those of the current
\* membership {A, B, C, D}.
C5_ScenarioFromCurrent ==
    (pc = "done" /\ changes_table = ScenarioTable)
        => /\ Recorded(start_date) /\ Recorded(start_date + timedelta_days)
           /\ MembersAt(start_date) = {"A", "B", "C"}
           /\ MembersAt(start_date + timedelta_days) = current_sp500
           /\ change_log = <<>>

\* the scenario has run to the end from the current membership {A, B, C, D}
C5_Witness ==
    /\ pc = "done"
    /\ changes_table = ScenarioTable
    /\ current_sp500 = {"A", "B", "C", "D"}
    /\ undone = <<<<start_date + 3, "D", "ADD", "Old">>>>

----------------------------------------------------------------------------
(* C6 *)

Popped == Len(queue0) - Len(change_log)

C6_Consumed ==
    Building =>
        /\ Popped >= 0
        /\ change_log = SubSeq(queue0, Popped + 1, Len(queue0))
        /\ undone = SubSeq(queue0, 1, Popped)
        /\ Popped <= Cardinality({i \in DOMAIN parsed_log :
                                    parsed_log[i][1] > start_date})

C6_FrontOnly ==
    (pc = "build" /\ change_log' # change_log) =>
        (change_log # <<>> /\ change_log' = Tail(change_log))

\* C6: during a build the queue changes only by losing its first element, so
\* every event is popped at most once and the popped events are a prefix of
\* the sorted queue; the pops never outnumber the events dated after
\* start_date.
C6_MonotonicConsumption == [](C6_Consumed) /\ [][C6_FrontOnly]_vars

\* a finished build that popped every event dated after start_date and left
\* an older one in the queue
C6_Witness ==
    /\ pc = "done"
    /\ Len(undone) >= 2
    /\ change_log # <<>>
    /\ Len(undone) = Cardinality({i \in DOMAIN parsed_log :
                                    parsed_log[i][1] > start_date})

----------------------------------------------------------------------------
(* C9 *)

\* a stands before b in the parsed change log
ParsedBefore(a, b) ==
    \E p, q \in DOMAIN parsed_log : p < q /\ parsed_log[p] = a /\ parsed_log[q] = b

SameDatePairs ==
    {<<i, j>> \in (DOMAIN queue0) \X (DOMAIN queue0) :
        i < j /\ queue0[i][1] = queue0[j][1] /\ queue0[i] # queue0[j]}

\* C9 as stated: events of one date stand in the queue in their input order
\* (read either way: as parsed, or last parsed first).
C9_TiesByInputOrder ==
    Building =>
        \/ \A ij \in SameDatePairs : ParsedBefore(queue0[ij[1]], queue0[ij[2]])
        \/ \A ij \in SameDatePairs : ParsedBefore(queue0[ij[2]], queue0[ij[1]])

\* b stands after a in descending order of (date, ticker, action, name)
DescendingPair(a, b) ==
    \/ a[1] > b[1]
    \/ a[1] = b[1] /\ StrRank(a[2]) > StrRank(b[2])
    \/ a[1] = b[1] /\ a[2] = b[2] /\ StrRank(a[3]) > StrRank(b[3])
    \/ a[1] = b[1] /\ a[2] = b[2] /\ a[3] = b[3] /\ StrRank(a[4]) >= StrRank(b[4])

\* C9 amended: the queue holds the parsed events ordered by effective_date
\* descending, and events of one date by ticker descending, then action
\* descending (REMOVE before ADD), then name descending, whatever their input
\* order; they are undone in that order.
C9_TiesByTupleOrder ==
    Building =>
        /\ \A e \in SeqToSet(parsed_log) \cup SeqToSet(queue0) :
              Count(queue0, e) = Count(parsed_log, e)
        /\ \A i, j \in DOMAIN queue0 : i < j => DescendingPair(queue0[i], queue0[j])
        /\ undone = SubSeq(queue0, 1, Len(undone))

\* two events of one date were parsed in one order and are undone in the other
C9_Witness ==
    /\ pc = "done"
    /\ Len(undone) >= 2
    /\ undone[1][1] = undone[2][1]
    /\ ParsedBefore(undone[2], undone[1])
    /\ ~ParsedBefore(undone[1], undone[2])

----------------------------------------------------------------------------
(* C4 *)

\* a < b on two 'YYYY-MM-DD' texts
DateTextLess(a, b) ==
    \/ a[1] < b[1]
    \/ a[1] = b[1] /\ a[2] < b[2]
    \/ a[1] = b[1] /\ a[2] = b[2] /\ a[3] < b[3]

C4_Snapshots ==
    /\ \A i \in DOMAIN weekly_snapshots :
          /\ end_date - timedelta_days * (i - 1) >= start_date
          /\ weekly_snapshots[i].week_start =
               Strftime(end_date - timedelta_days * (i - 1))
    /\ \A i, j \in DOMAIN weekly_snapshots :
          i < j => DateTextLess(weekly_snapshots[j].week_start,
                                weekly_snapshots[i].week_start)
    /\ pc = "done" =>
          /\ \A d \in AnchorDays :
                Cardinality({i \in DOMAIN weekly_snapshots :
                               weekly_snapshots[i].week_start = Strftime(d)}) = 1
          /\ \A d \in DayRange \ AnchorDays : ~Recorded(d)
          /\ Len(weekly_snapshots) = Cardinality(AnchorDays)
          /\ weekly_snapshots[Len(weekly_snapshots)].week_start = Strftime(start_date)

\* C4: the build ends, and it has then recorded exactly one snapshot for each
\* of end_date, end_date - 7, ... down to start_date, in strictly descending
\* week_start order, and none for any other date.
C4_OneSnapshotPerWeek == [](C4_Snapshots) /\ ((pc = "build") ~> (pc = "done"))

\* a finished build whose snapshots span two months and which undid an event
C4_Witness ==
    /\ pc = "done"
    /\ Len(weekly_snapshots) >= 3
    /\ undone # <<>>
    /\ weekly_snapshots[1].week_start[2] #
         weekly_snapshots[Len(weekly_snapshots)].week_start[2]

----------------------------------------------------------------------------
(* C8 *)

----------------------------------------------------------------------------
(* C10 *)

TheRow == changes_table[1]

RowParsed == row_idx = 2 \/ pc = "raised"

BothStr(tickers, names) == tickers.kind = "str" /\ names.kind = "str"

\* the first min(m, n) tickers, each with the name of its position
PairedEvents(tickers, names, action) ==
    [i \in 1..Min(Len(tickers.parts), Len(names.parts)) |->
        <<TheRow.date.day, StripUpper(tickers.parts[i]), action, Strip(names.parts[i])>>]

EventsOf(action) == SelectSeq(change_log, LAMBDA e : e[3] = action)

\* the tickers of the row that some event names
PairedTickers == {change_log[i][2] : i \in DOMAIN change_log}

\* the tickers of text cells of the row
RowTickers ==
    {StripUpper(TheRow.added_tickers.parts[i]) : i \in DOMAIN TheRow.added_tickers.parts}
      \cup {StripUpper(TheRow.removed_tickers.parts[i]) :
              i \in DOMAIN TheRow.removed_tickers.parts}

\* C10: a parsed row whose ticker cell splits into m tickers and whose name
\* cell splits into n names gives exactly the first min(m, n) tickers, each
\* paired with the name of its position, for the added and for the removed
\* column; the parse raises only when a ticker cell is text and its name cell
\* is not, never for m # n; a ticker beyond min(m, n) gets no event and no
\* name of this row.
C10_MismatchTruncates ==
    (RowParsed /\ TheRow.date.kind = "date") =>
        /\ BothStr(TheRow.added_tickers, TheRow.added_names) =>
              EventsOf("ADD") = PairedEvents(TheRow.added_tickers, TheRow.added_names, "ADD")
        /\ (BothStr(TheRow.removed_tickers, TheRow.removed_names)
              /\ ~SplitRaises(TheRow.added_tickers, TheRow.added_names)) =>
              EventsOf("REMOVE") =
                PairedEvents(TheRow.removed_tickers, TheRow.removed_names, "REMOVE")
        /\ pc = "raised" <=>
              \/ SplitRaises(TheRow.added_tickers, TheRow.added_names)
              \/ SplitRaises(TheRow.removed_tickers, TheRow.removed_names)
        /\ \A t \in RowTickers \ PairedTickers :
              GetName(ticker_to_name, t) =
                (IF t \in current_sp500 THEN Security[t] ELSE "NA")

\* a row of two added tickers with one name and one removed ticker with two
\* names has been parsed without raising: one event each, the second added
\* ticker left without event and without name
C10_Witness ==
    /\ row_idx = 2
    /\ pc = "parse"
    /\ TheRow.date.kind = "date"
    /\ TheRow.added_tickers = Str(<<"C", " d">>)
    /\ TheRow.added_names = Str(<<" New">>)
    /\ TheRow.removed_tickers = Str(<<"C">>)
    /\ Len(TheRow.removed_names.parts) = 2
    /\ Len(change_log) = 2
    /\ GetName(ticker_to_name, "D") = "NA"

----------------------------------------------------------------------------
(* C3 *)

Mentions(t) == Cardinality({i \in DOMAIN items : t \in items[i]})

\* C3: in every week the tally holds exactly the tickers that are members of
\* that week's snapshot and that some item of the week mentions, each with
\* the number of items mentioning it; a candidate outside that week's
\* snapshot is never counted, whatever the other weeks' snapshots hold, and
\* the selection names tallied tickers only.  Snapshot {AAPL, MSFT} with
\* candidates {AAPL, TSLA} gives the tally AAPL = 1.
C3_SurvivorshipGuard ==
    fpc \in {"count", "selected", "end"} =>
        /\ DOMAIN tally \subseteq membership[week]
        /\ \A t \in FilterTickers :
              t \in DOMAIN tally <=> (t \in membership[week] /\ Mentions(t) > 0)
        /\ \A t \in DOMAIN tally : tally[t] = Mentions(t)
        /\ \A i \in DOMAIN selection : selection[i][1] \in membership[week]
        /\ (membership[week] = {"AAPL", "MSFT"} /\ items = <<{"AAPL", "TSLA"}>>) =>
              (DOMAIN tally = {"AAPL"} /\ tally["AAPL"] = 1)

\* TSLA is mentioned in a week whose snapshot lacks it, while another week's
\* snapshot holds it, and the week's selection is made
C3_Witness ==
    /\ fpc = "selected"
    /\ membership[week] = {"AAPL", "MSFT"}
    /\ \E w \in DOMAIN membership : "TSLA" \in membership[w]
    /\ items = <<{"AAPL", "TSLA"}>>
    /\ selection = <<<<"AAPL", 1>>>>

----------------------------------------------------------------------------
(* C7 *)

Selected == {selection[i][1] : i \in DOMAIN selection}

\* C7: a week's selection holds at most TOP_N_WEEKLY entries, each a tallied
\* ticker with its count, ordered by count descending and, at equal counts,
\* by ticker ascending; it is the prefix of that ordering of the tally, so no
\* ticker left out ranks before one selected; ZZZ and AAA tied at 3 with
\* TOP_N_WEEKLY = 1 select AAA; an empty tally gives an empty selection.
C7_TopSelection ==
    fpc = "selected" =>
        /\ Len(selection) <= top_n
        /\ Len(selection) = Min(top_n, Cardinality(DOMAIN tally))
        /\ \A i \in DOMAIN selection :
              /\ selection[i][1] \in DOMAIN tally
              /\ selection[i][2] = tally[selection[i][1]]
        /\ \A i, j \in DOMAIN selection :
              i < j => \/ selection[i][2] > selection[j][2]
                       \/ /\ selection[i][2] = selection[j][2]
                          /\ StrRank(selection[i][1]) < StrRank(selection[j][1])
        /\ \A t \in DOMAIN tally \ Selected : \A i \in DOMAIN selection :
              \/ selection[i][2] > tally[t]
              \/ /\ selection[i][2] = tally[t]
                 /\ StrRank(selection[i][1]) < StrRank(t)
        /\ (top_n = 1 /\ DOMAIN tally = {"AAA", "ZZZ"}
              /\ tally["AAA"] = 3 /\ tally["ZZZ"] = 3) =>
              selection = <<<<"AAA", 3>>>>
        /\ tally = <<>> => selection = <<>>

\* six tickers are tallied, two of them tied, and five are selected
C7_Witness ==
    /\ fpc = "selected"
    /\ top_n = TOP_N_WEEKLY
    /\ Cardinality(DOMAIN tally) = 6
    /\ Len(selection) = 5
    /\ selection[1][2] > selection[5][2]
    /\ \E i \in 1..4 : selection[i][2] = selection[i + 1][2]

====
